---- MODULE Spec2Model ----
(***************************************************************************)
(* Model of the crate tuple_split (src/src/lib.rs).                        *)
(*                                                                         *)
(* Two parts of the crate are modelled.                                    *)
(*  - The build: the macros impl_split_all!, impl_split_combinations! and  *)
(*    impl_split_single! are expanded step by step from one invocation and *)
(*    emit trait implementations; the calls split_tuple_at,                *)
(*    split_tuple_into_left, split_tuple_into_right and split_tuple_into   *)
(*    are then resolved against the emitted implementations and executed   *)
(*    (specification Spec).                                                *)
(*  - The configuration: the cargo features and the #[cfg] gates of the    *)
(*    eleven impl_split_all! invocations (specification SpecCfg).          *)
(***************************************************************************)
EXTENDS Naturals, Sequences, FiniteSets

VARIABLES
    invocation, \* identifier list of the impl_split_all! invocation being built
    pending,    \* macro invocations still to expand, next one first
    impls,      \* trait implementations emitted so far, in emission order
    call,       \* the last call of a split function and its result
    features,   \* the enabled cargo features
    active,     \* identifier counts of the impl_split_all! blocks whose cfg holds
    pc          \* "expand", "built", "called" (Spec); "configure", "cfg_done" (SpecCfg)

vars == <<invocation, pending, impls, call, features, active, pc>>

\* Largest identifier list handed to impl_split_all! in Spec.
MaxArity == 3

\* Tuples one element longer than any generated arity are tried too.
MaxTupleLen == MaxArity + 1

\* Element types of the tuples tried.
Types == {"u8", "f32"}

\* The tuple types (shapes) of length at most MaxTupleLen.
Shapes == UNION {[1..n -> Types] : n \in 0..MaxTupleLen}

\* The pairs of shapes asked of split_tuple_into: together at most one element
\* longer than the longest tuple.
ShapePairs == {lr \in Shapes \X Shapes : Len(lr[1]) + Len(lr[2]) <= MaxTupleLen + 1}

\* The tuple values tried: as in tests::test, the value of an element is its
\* position, so that a moved, dropped or repeated element shows.
Tuples == {[i \in 1..Len(s) |-> [ty |-> s[i], val |-> i]] : s \in Shapes}

TypeOf(t) == [i \in 1..Len(t) |-> t[i].ty]

\* The identifiers _1, ..., _n of an invocation, as the numbers 1..n.
Idents(n) == [i \in 1..n |-> i]

\* blk_count_macro::count!: the number of identifiers handed to it.
count(types) == Len(types)

\* tupleops::concat_tuples, and ConcatTuples<L, R> on types.
concat_tuples(l, r) == l \o r

-----------------------------------------------------------------------------
(* impl_split_single!: the three implementations emitted for one partition *)

\* SplitAtImpl with the two parts exchanged: type Left = (types2..), type Right =
\* (types1..), and the body returns ((types2..), (types1..)).
SplitAtImpl_PartsExchanged(types1, types2) ==
    [trait |-> "TupleSplitAt",
     param |-> count(types1),
     self  |-> types1 \o types2,
     Left  |-> types2,
     Right |-> types1,
     pat   |-> types1 \o types2,
     retl  |-> types2,
     retr  |-> types1]

\* SplitAtImpl registered under count!(types2) instead of count!(types1).
SplitAtImpl_CountsRight(types1, types2) ==
    [trait |-> "TupleSplitAt",
     param |-> count(types2),
     self  |-> types1 \o types2,
     Left  |-> types1,
     Right |-> types2,
     pat   |-> types1 \o types2,
     retl  |-> types1,
     retr  |-> types2]

\* SplitAtImpl whose body leaves the last element out of the right part.
SplitAtImpl_DropsLast(types1, types2) ==
    [trait |-> "TupleSplitAt",
     param |-> count(types1),
     self  |-> types1 \o types2,
     Left  |-> types1,
     Right |-> types2,
     pat   |-> types1 \o types2,
     retl  |-> types1,
     retr  |-> IF types2 = <<>> THEN types2 ELSE SubSeq(types2, 1, Len(types2) - 1)]

\* impl<..> const TupleSplitAt<{count!(types1)}> for (types1.., types2..)
SplitAtImpl(types1, types2) ==
    [trait |-> "TupleSplitAt",
     param |-> count(types1),
     self  |-> types1 \o types2,
     Left  |-> types1,
     Right |-> types2,
     pat   |-> types1 \o types2,
     retl  |-> types1,
     retr  |-> types2]

\* IntoLeftImpl registered for the shape (types2..), as the implementation of
\* TupleSplitIntoRight is.
IntoLeftImpl_ForRightShape(types1, types2) ==
    [trait |-> "TupleSplitIntoLeft",
     param |-> types2,
     self  |-> types1 \o types2,
     Left  |-> types1,
     Right |-> types2,
     pat   |-> types1 \o types2,
     retl  |-> types1,
     retr  |-> types2]

\* impl<..> const TupleSplitIntoLeft<(types1..)> for (types1.., types2..)
IntoLeftImpl(types1, types2) ==
    [trait |-> "TupleSplitIntoLeft",
     param |-> types1,
     self  |-> types1 \o types2,
     Left  |-> types1,
     Right |-> types2,
     pat   |-> types1 \o types2,
     retl  |-> types1,
     retr  |-> types2]

\* IntoRightImpl whose body binds the tuple as (types2.., types1..).
IntoRightImpl_BindsRightFirst(types1, types2) ==
    [trait |-> "TupleSplitIntoRight",
     param |-> types2,
     self  |-> types1 \o types2,
     Left  |-> types1,
     Right |-> types2,
     pat   |-> types2 \o types1,
     retl  |-> types1,
     retr  |-> types2]

\* impl<..> const TupleSplitIntoRight<(types2..)> for (types1.., types2..)
IntoRightImpl(types1, types2) ==
    [trait |-> "TupleSplitIntoRight",
     param |-> types2,
     self  |-> types1 \o types2,
     Left  |-> types1,
     Right |-> types2,
     pat   |-> types1 \o types2,
     retl  |-> types1,
     retr  |-> types2]

impl_split_single(types1, types2) ==
    <<SplitAtImpl(types1, types2),
      IntoLeftImpl(types1, types2),
      IntoRightImpl(types1, types2)>>

-----------------------------------------------------------------------------
(* Macro invocations and their expansion *)

Inv(macro, args) == [macro |-> macro, args |-> args]

\* impl_split_combinations! whose arm 2 goes on without the identifier t0.
impl_split_combinations_DropsMoved(args) ==
    IF Len(args) = 2 /\ args[1] = <<>>
    THEN <<Inv("impl_split_single", <<(<<>>), args[2]>>)>>
    ELSE IF Len(args) = 2
    THEN <<Inv("impl_split_single", <<args[1], args[2]>>),
           Inv("impl_split_combinations", <<Tail(args[1]), args[2]>>)>>
    ELSE <<Inv("impl_split_combinations", <<args[1], (<<>>)>>)>>

\* impl_split_combinations! whose arm 1 emits nothing.
impl_split_combinations_NoEmptyLeft(args) ==
    IF Len(args) = 2 /\ args[1] = <<>>
    THEN <<>>
    ELSE IF Len(args) = 2
    THEN <<Inv("impl_split_single", <<args[1], args[2]>>),
           Inv("impl_split_combinations",
               <<Tail(args[1]), <<Head(args[1])>> \o args[2]>>)>>
    ELSE <<Inv("impl_split_combinations", <<args[1], (<<>>)>>)>>

\* impl_split_combinations!: the invocations one expansion step leaves.
\*   arm 1  ( (), (types2) )            => impl_split_single!{(), (types2)}
\*   arm 2  ( (t0, types1), (types2) )  => impl_split_single!{(t0, types1), (types2)}
\*                                         impl_split_combinations!{(types1), (t0, types2)}
\*   arm 3  ( (types) )                 => impl_split_combinations!{(types), ()}
impl_split_combinations(args) ==
    IF Len(args) = 2 /\ args[1] = <<>>
    THEN <<Inv("impl_split_single", <<(<<>>), args[2]>>)>>
    ELSE IF Len(args) = 2
    THEN <<Inv("impl_split_single", <<args[1], args[2]>>),
           Inv("impl_split_combinations",
               <<Tail(args[1]), <<Head(args[1])>> \o args[2]>>)>>
    ELSE <<Inv("impl_split_combinations", <<args[1], (<<>>)>>)>>

\* impl_split_all! whose arm 2 does not go on to the shorter list.
impl_split_all_NoRecursion(args) ==
    IF args[1] = <<>>
    THEN <<Inv("impl_split_combinations", <<(<<>>)>>)>>
    ELSE <<Inv("impl_split_combinations", <<args[1]>>)>>

\* impl_split_all!: the invocations one expansion step leaves.
\*   arm 1  ( () )           => impl_split_combinations!{()}
\*   arm 2  ( (t0, types) )  => impl_split_combinations!{(t0, types)}
\*                              impl_split_all!{(types)}
impl_split_all(args) ==
    IF args[1] = <<>>
    THEN <<Inv("impl_split_combinations", <<(<<>>)>>)>>
    ELSE <<Inv("impl_split_combinations", <<args[1]>>),
           Inv("impl_split_all", <<Tail(args[1])>>)>>

-----------------------------------------------------------------------------
(* Trait resolution and the bodies of the implementations *)

\* A list of generic parameters matches a list of types when the lengths agree
\* and a parameter named twice stands for one type.
Unify(pattern, types) ==
    /\ Len(pattern) = Len(types)
    /\ \A i, j \in 1..Len(pattern) : pattern[i] = pattern[j] => types[i] = types[j]

PosOf(pattern, id) == CHOOSE i \in 1..Len(pattern) : pattern[i] = id

\* Whether implementation im of a trait applies to Self = tt with trait argument arg.
Applies(im, tt, arg) ==
    IF im.trait = "TupleSplitAt"
    THEN im.param = arg /\ Unify(im.self, tt)
    ELSE /\ Len(im.self) = Len(tt)
         /\ Unify(im.self \o im.param, tt \o arg)

Resolve(trait, tt, arg) ==
    {i \in DOMAIN impls : impls[i].trait = trait /\ Applies(impls[i], tt, arg)}

\* An associated type of im (a list of its generic parameters) for Self = tt.
Subst(im, tt, pattern) ==
    [i \in 1..Len(pattern) |-> tt[PosOf(im.self, pattern[i])]]

\* let (pat..) = self; (ret..): the elements bound to the names of ret.
Build(ret, pat, t) ==
    [i \in 1..Len(ret) |-> t[PosOf(pat, ret[i])]]

NoResult(n) ==
    [outcome |-> IF n = 0 THEN "unimplemented" ELSE "conflicting",
     nimpls |-> n, left |-> <<>>, right |-> <<>>, Left |-> <<>>, Right |-> <<>>]

\* A trait method call on tuple t: resolved at build time, then the body runs.
Invoke(trait, t, arg) ==
    LET c == Resolve(trait, TypeOf(t), arg)
    IN  IF Cardinality(c) = 1
        THEN LET im == impls[CHOOSE i \in c : TRUE]
             IN  [outcome |-> "ok",
                  nimpls  |-> 1,
                  left    |-> Build(im.retl, im.pat, t),
                  right   |-> Build(im.retr, im.pat, t),
                  Left    |-> Subst(im, TypeOf(t), im.Left),
                  Right   |-> Subst(im, TypeOf(t), im.Right)]
        ELSE NoResult(Cardinality(c))

split_tuple_at(t, k) == Invoke("TupleSplitAt", t, k)

split_tuple_into_left(t, L) == Invoke("TupleSplitIntoLeft", t, L)

split_tuple_into_right(t, R) == Invoke("TupleSplitIntoRight", t, R)

\* TupleSplitInto without the bounds Right = R and Left = L.
TupleSplitInto_NoAssocBounds(t, L, R) ==
    /\ split_tuple_into_left(t, L).outcome = "ok"
    /\ split_tuple_into_right(t, R).outcome = "ok"

\* impl<T, L, R> TupleSplitInto<L, R> for T
\*   where Self: TupleSplitIntoLeft<L, Right = R> + TupleSplitIntoRight<R, Left = L>
TupleSplitInto(t, L, R) ==
    LET l == split_tuple_into_left(t, L)
        r == split_tuple_into_right(t, R)
    IN  /\ l.outcome = "ok" /\ l.Right = R
        /\ r.outcome = "ok" /\ r.Left = L

\* fn split_tuple_into(self) -> (L, R) of that implementation: the body is
\* self.split_tuple_into_left().
TupleSplitInto_split_tuple_into(t, L, R) ==
    IF TupleSplitInto(t, L, R)
    THEN split_tuple_into_left(t, L)
    ELSE NoResult(0)

\* The free function split_tuple_into<L, R>(tuple: ConcatTuples<L, R>)
\*   where ConcatTuples<L, R>: TupleSplitInto<L, R>: the argument has the type
\* ConcatTuples<L, R>, and the body is tuple.split_tuple_into().
split_tuple_into(t, L, R) ==
    IF TypeOf(t) = concat_tuples(L, R)
    THEN TupleSplitInto_split_tuple_into(t, L, R)
    ELSE NoResult(0)

-----------------------------------------------------------------------------
(* The build and the calls: specification Spec *)

NoCall == [fn |-> "none", tuple |-> <<>>, k |-> 0, L |-> <<>>, R |-> <<>>,
           res |-> NoResult(0)]

Init ==
    /\ invocation \in {Idents(n) : n \in 0..MaxArity}
    /\ pending = <<Inv("impl_split_all", <<invocation>>)>>
    /\ impls = <<>>
    /\ call = NoCall
    /\ features = {}
    /\ active = {}
    /\ pc = "expand"

ExpandSplitAll ==
    /\ pc = "expand" /\ pending # <<>>
    /\ Head(pending).macro = "impl_split_all"
    /\ pending' = impl_split_all(Head(pending).args) \o Tail(pending)
    /\ UNCHANGED <<invocation, impls, call, features, active, pc>>

ExpandSplitCombinations ==
    /\ pc = "expand" /\ pending # <<>>
    /\ Head(pending).macro = "impl_split_combinations"
    /\ pending' = impl_split_combinations(Head(pending).args) \o Tail(pending)
    /\ UNCHANGED <<invocation, impls, call, features, active, pc>>

ExpandSplitSingle ==
    /\ pc = "expand" /\ pending # <<>>
    /\ Head(pending).macro = "impl_split_single"
    /\ impls' = impls \o impl_split_single(Head(pending).args[1], Head(pending).args[2])
    /\ pending' = Tail(pending)
    /\ UNCHANGED <<invocation, call, features, active, pc>>

\* Nothing is left to expand: the crate is built. A program then makes one
\* call (each call is resolved on its own, whatever other calls there are).
Built ==
    /\ pc = "expand" /\ pending = <<>>
    /\ pc' = "built"
    /\ UNCHANGED <<invocation, pending, impls, call, features, active>>

CallSplitTupleAt ==
    /\ pc = "built"
    /\ \E t \in Tuples, k \in 0..(MaxTupleLen + 1) :
          call' = [fn |-> "split_tuple_at", tuple |-> t, k |-> k,
                   L |-> <<>>, R |-> <<>>, res |-> split_tuple_at(t, k)]
    /\ pc' = "called"
    /\ UNCHANGED <<invocation, pending, impls, features, active>>

CallSplitTupleIntoLeft ==
    /\ pc = "built"
    /\ \E t \in Tuples, L \in Shapes :
          call' = [fn |-> "split_tuple_into_left", tuple |-> t, k |-> 0,
                   L |-> L, R |-> <<>>, res |-> split_tuple_into_left(t, L)]
    /\ pc' = "called"
    /\ UNCHANGED <<invocation, pending, impls, features, active>>

CallSplitTupleIntoRight ==
    /\ pc = "built"
    /\ \E t \in Tuples, R \in Shapes :
          call' = [fn |-> "split_tuple_into_right", tuple |-> t, k |-> 0,
                   L |-> <<>>, R |-> R, res |-> split_tuple_into_right(t, R)]
    /\ pc' = "called"
    /\ UNCHANGED <<invocation, pending, impls, features, active>>

CallSplitTupleInto ==
    /\ pc = "built"
    /\ \E t \in Tuples, lr \in ShapePairs :
          call' = [fn |-> "split_tuple_into", tuple |-> t, k |-> 0,
                   L |-> lr[1], R |-> lr[2],
                   res |-> split_tuple_into(t, lr[1], lr[2])]
    /\ pc' = "called"
    /\ UNCHANGED <<invocation, pending, impls, features, active>>

\* The trait method called on a tuple, TupleSplitInto::<L, R>::split_tuple_into(t).
CallTupleSplitInto ==
    /\ pc = "built"
    /\ \E t \in Tuples, lr \in ShapePairs :
          call' = [fn |-> "TupleSplitInto::split_tuple_into", tuple |-> t, k |-> 0,
                   L |-> lr[1], R |-> lr[2],
                   res |-> TupleSplitInto_split_tuple_into(t, lr[1], lr[2])]
    /\ pc' = "called"
    /\ UNCHANGED <<invocation, pending, impls, features, active>>

Next ==
    \/ ExpandSplitAll
    \/ ExpandSplitCombinations
    \/ ExpandSplitSingle
    \/ Built
    \/ CallSplitTupleAt
    \/ CallSplitTupleIntoLeft
    \/ CallSplitTupleIntoRight
    \/ CallSplitTupleInto
    \/ CallTupleSplitInto

Spec == Init /\ [][Next]_vars

-----------------------------------------------------------------------------
(* The features and the cfg gates: specification SpecCfg *)

dont_hurt_yourself == "dont_hurt_yourself_by_using_all_features"

\* The size features, in the order of the blocks.
SizeFeatures == <<"8", "16", "32", "64", "96", "128", "160", "192", "224", "256">>

SizeFeatureSet == {SizeFeatures[i] : i \in DOMAIN SizeFeatures}

Features == SizeFeatureSet \cup {dont_hurt_yourself}

feature(f, name) == name \in f

\* cfg_8 without the condition on the feature 16.
cfg_8_Only8(f) == feature(f, "8")

\* cfg_256 with the feature of the block before it, 224, in place of 256.
cfg_256_Feature224(f) ==
    ~feature(f, dont_hurt_yourself) /\ feature(f, "224")

\* cfg_256 without the condition on dont_hurt_yourself_by_using_all_features.
cfg_256_Unguarded(f) == feature(f, "256")

\* The cfg attributes of the eleven impl_split_all! invocations, named by the
\* number of identifiers of the invocation.
cfg_4(f) == ~feature(f, "8")

cfg_8(f) ==
    /\ feature(f, "8")
    /\ (feature(f, dont_hurt_yourself) \/ ~feature(f, "16"))

cfg_16(f) ==
    feature(f, "16") /\ ~feature(f, dont_hurt_yourself) /\ ~feature(f, "32")

cfg_32(f) ==
    feature(f, "32") /\ ~feature(f, dont_hurt_yourself) /\ ~feature(f, "64")

cfg_64(f) ==
    feature(f, "64") /\ ~feature(f, dont_hurt_yourself) /\ ~feature(f, "96")

cfg_96(f) ==
    feature(f, "96") /\ ~feature(f, dont_hurt_yourself) /\ ~feature(f, "128")

cfg_128(f) ==
    feature(f, "128") /\ ~feature(f, dont_hurt_yourself) /\ ~feature(f, "160")

cfg_160(f) ==
    feature(f, "160") /\ ~feature(f, dont_hurt_yourself) /\ ~feature(f, "192")

cfg_192(f) ==
    feature(f, "192") /\ ~feature(f, dont_hurt_yourself) /\ ~feature(f, "224")

cfg_224(f) ==
    feature(f, "224") /\ ~feature(f, dont_hurt_yourself) /\ ~feature(f, "256")

cfg_256(f) ==
    ~feature(f, dont_hurt_yourself) /\ feature(f, "256")

\* The numbers of identifiers of the eleven invocations.
Blocks == {4, 8, 16, 32, 64, 96, 128, 160, 192, 224, 256}

\* The number of identifiers of the invocation that each size feature names,
\* in the order of SizeFeatures.
SizeFeatureArity == <<8, 16, 32, 64, 96, 128, 160, 192, 224, 256>>

\* The invocations that are compiled under the features f.
ActiveBlocks(f) ==
    {m \in Blocks :
        CASE m = 4   -> cfg_4(f)
          [] m = 8   -> cfg_8(f)
          [] m = 16  -> cfg_16(f)
          [] m = 32  -> cfg_32(f)
          [] m = 64  -> cfg_64(f)
          [] m = 96  -> cfg_96(f)
          [] m = 128 -> cfg_128(f)
          [] m = 160 -> cfg_160(f)
          [] m = 192 -> cfg_192(f)
          [] m = 224 -> cfg_224(f)
          [] m = 256 -> cfg_256(f)}

\* impl_split_all! on m identifiers emits the implementations of arity n split
\* at k for k <= n <= m (what the expansion of Spec yields, see GeneratorCoverage).
BlockEmits(m, n, k) == k <= n /\ n <= m

\* Two compiled invocations emit an implementation of the same trait for the
\* same tuple type and split point: conflicting implementations.
Conflicting(act) ==
    \E a \in act, b \in act :
        /\ a # b
        /\ \E n \in 0..a : \E k \in 0..n : BlockEmits(a, n, k) /\ BlockEmits(b, n, k)

\* The crate builds with a set of implementations.
Accepted(act) == act # {} /\ ~Conflicting(act)

InitCfg ==
    /\ invocation = <<>>
    /\ pending = <<>>
    /\ impls = <<>>
    /\ call = NoCall
    /\ features = {}
    /\ active = {}
    /\ pc = "configure"

\* cargo enables one more feature (--features, a dependent's request).
EnableFeature ==
    /\ pc = "configure"
    /\ \E f \in Features \ features : features' = features \cup {f}
    /\ UNCHANGED <<invocation, pending, impls, call, active, pc>>

\* The compiler evaluates the cfg attributes under the enabled features.
EvalCfg ==
    /\ pc = "configure"
    /\ active' = ActiveBlocks(features)
    /\ pc' = "cfg_done"
    /\ UNCHANGED <<invocation, pending, impls, call, features>>

NextCfg == EnableFeature \/ EvalCfg

SpecCfg == InitCfg /\ [][NextCfg]_vars

-----------------------------------------------------------------------------
(* Properties *)

\* The largest arity impl_split_all! was invoked for.
NMax == Len(invocation)

IsPrefix(L, tt) == Len(L) <= Len(tt) /\ L = SubSeq(tt, 1, Len(L))

IsSuffix(R, tt) == Len(R) <= Len(tt) /\ R = SubSeq(tt, Len(tt) - Len(R) + 1, Len(tt))

Called(fn) == pc = "called" /\ call.fn = fn

\* A call of split_tuple_at::<k>(T) with T of a generated arity and k in [0, n].
SplitAtInRange ==
    /\ Called("split_tuple_at")
    /\ Len(call.tuple) <= NMax
    /\ call.k <= Len(call.tuple)

\* C1. Round-trip law: for a tuple T of arity n <= N_max and k in [0, n],
\* split_tuple_at::<k>(T) resolves, and concatenating its left and right results
\* gives T again: the same arity, and the same value and type at every position.
RoundTrip ==
    SplitAtInRange =>
        /\ call.res.outcome = "ok"
        /\ concat_tuples(call.res.left, call.res.right) = call.tuple
        /\ concat_tuples(call.res.Left, call.res.Right) = TypeOf(call.tuple)
        /\ TypeOf(call.res.left) = call.res.Left
        /\ TypeOf(call.res.right) = call.res.Right

\* A tuple of three elements of two types was split at 1 and put together again.
RoundTripWitness ==
    /\ SplitAtInRange
    /\ TypeOf(call.tuple) = <<"u8", "f32", "u8">>
    /\ call.k = 1
    /\ call.res.outcome = "ok"
    /\ Len(call.res.left) = 1 /\ Len(call.res.right) = 2

\* C2. Every emitted implementation of TupleSplitAt<k> for a tuple of arity n is
\* registered under k = the number of elements of its Left; Left is the
\* positions [0, k) of the tuple in order and Right the positions [k, n) in
\* order, for the types and for the elements the body returns; so a call returns
\* the first k elements and the last n - k elements of its tuple, each once.
\* (A call leaves impls as they were when the crate was built, so the emitted
\* implementations are looked at in the states before the call.)
SplitPositions ==
    /\ pc # "called" => \A i \in DOMAIN impls :
          impls[i].trait = "TupleSplitAt" =>
            LET im == impls[i]
                n == Len(im.self)
                k == im.param
            IN  /\ k = Len(im.Left)
                /\ k <= n
                /\ Len(im.Right) = n - k
                /\ im.Left = SubSeq(im.self, 1, k)
                /\ im.Right = SubSeq(im.self, k + 1, n)
                /\ Build(im.retl, im.pat, im.self) = SubSeq(im.self, 1, k)
                /\ Build(im.retr, im.pat, im.self) = SubSeq(im.self, k + 1, n)
    /\ (Called("split_tuple_at") /\ call.res.outcome = "ok") =>
          /\ call.k <= Len(call.tuple)
          /\ call.res.left = SubSeq(call.tuple, 1, call.k)
          /\ call.res.right = SubSeq(call.tuple, call.k + 1, Len(call.tuple))
          /\ \A p \in 1..Len(call.tuple) :
                Cardinality({q \in 1..Len(call.res.left) : call.res.left[q] = call.tuple[p]})
                + Cardinality({q \in 1..Len(call.res.right) : call.res.right[q] = call.tuple[p]})
                = 1

\* A tuple of three elements was split at 2 by an emitted implementation.
SplitPositionsWitness ==
    /\ Called("split_tuple_at")
    /\ call.res.outcome = "ok"
    /\ Len(call.tuple) = 3
    /\ call.k = 2
    /\ \E i \in DOMAIN impls :
          impls[i].trait = "TupleSplitAt" /\ impls[i].param = 2 /\ Len(impls[i].self) = 3

\* C3. For a tuple T of arity n <= N_max and k in [0, n], with Left_k and Right_k
\* the types of split_tuple_at::<k>(T): split_tuple_into_left::<Left_k>(T) and
\* split_tuple_into_right::<Right_k>(T) resolve and return the pair that
\* split_tuple_at::<k>(T) returns.
ShapeIndexEquivalence ==
    SplitAtInRange =>
        LET l == split_tuple_into_left(call.tuple, call.res.Left)
            r == split_tuple_into_right(call.tuple, call.res.Right)
        IN  /\ call.res.outcome = "ok"
            /\ l.outcome = "ok" /\ r.outcome = "ok"
            /\ l.left = call.res.left /\ l.right = call.res.right
            /\ r.left = call.res.left /\ r.right = call.res.right
            /\ l.Left = call.res.Left /\ l.Right = call.res.Right
            /\ r.Left = call.res.Left /\ r.Right = call.res.Right

\* A tuple of three elements was split at 1, both parts non-empty.
ShapeIndexEquivalenceWitness ==
    /\ SplitAtInRange
    /\ Len(call.tuple) = 3
    /\ call.k = 1
    /\ call.res.Left = <<"f32">>
    /\ call.res.Right = <<"u8", "f32">>

\* C4. For a tuple type T of arity n <= N_max and a shape L,
\* split_tuple_into_left::<L>(T) resolves iff L is the first |L| element types
\* of T; then exactly one implementation applies, its left part has |L| elements
\* and Right is the rest of T. Symmetrically split_tuple_into_right::<R>(T)
\* resolves iff R is the last |R| element types of T. Otherwise no implementation
\* applies and the call does not build.
ShapeDirectedResolution ==
    /\ (Called("split_tuple_into_left") /\ Len(call.tuple) <= NMax) =>
          LET tt == TypeOf(call.tuple)
          IN  /\ call.res.outcome = "ok" <=> IsPrefix(call.L, tt)
              /\ call.res.outcome = "ok" =>
                    /\ call.res.nimpls = 1
                    /\ Len(call.res.left) = Len(call.L)
                    /\ call.res.Left = call.L
                    /\ call.res.Right = SubSeq(tt, Len(call.L) + 1, Len(tt))
              /\ call.res.outcome # "ok" =>
                    call.res.outcome = "unimplemented" /\ call.res.nimpls = 0
    /\ (Called("split_tuple_into_right") /\ Len(call.tuple) <= NMax) =>
          LET tt == TypeOf(call.tuple)
          IN  /\ call.res.outcome = "ok" <=> IsSuffix(call.R, tt)
              /\ call.res.outcome = "ok" =>
                    /\ call.res.nimpls = 1
                    /\ Len(call.res.right) = Len(call.R)
                    /\ call.res.Right = call.R
                    /\ call.res.Left = SubSeq(tt, 1, Len(tt) - Len(call.R))
              /\ call.res.outcome # "ok" =>
                    call.res.outcome = "unimplemented" /\ call.res.nimpls = 0

\* The shape (f32, u8) was asked of a tuple (u8, f32, u8): no implementation.
ShapeDirectedResolutionWitness ==
    /\ Called("split_tuple_into_left")
    /\ NMax = 3
    /\ TypeOf(call.tuple) = <<"u8", "f32", "u8">>
    /\ call.L = <<"f32", "u8">>
    /\ call.res.outcome = "unimplemented"

\* C5. split_tuple_into::<L, R>(T), as the function and as the trait method, is
\* accepted exactly when split_tuple_into_left::<L>(T) and
\* split_tuple_into_right::<R>(T) resolve and |L| + |R| is the arity of T; for T
\* of arity n <= N_max that is: L is the first |L| types of T, R the last |R|
\* types and |L| + |R| = n. When accepted it returns the pair that
\* split_tuple_into_left::<L>(T) returns.
SplitIntoBothShapes ==
    (Called("split_tuple_into") \/ Called("TupleSplitInto::split_tuple_into")) =>
        LET tt == TypeOf(call.tuple)
            l == split_tuple_into_left(call.tuple, call.L)
            r == split_tuple_into_right(call.tuple, call.R)
        IN  /\ call.res.outcome = "ok" <=>
                  /\ l.outcome = "ok" /\ r.outcome = "ok"
                  /\ Len(call.L) + Len(call.R) = Len(tt)
            /\ Len(tt) <= NMax =>
                  (call.res.outcome = "ok" <=>
                      /\ IsPrefix(call.L, tt) /\ IsSuffix(call.R, tt)
                      /\ Len(call.L) + Len(call.R) = Len(tt))
            /\ call.res.outcome = "ok" =>
                  /\ call.res = l
                  /\ call.res.Left = call.L /\ call.res.Right = call.R
                  /\ concat_tuples(call.res.left, call.res.right) = call.tuple
            /\ call.res.outcome # "ok" => call.res = NoResult(0)

\* The trait method was accepted for a tuple of three elements, L of 2 and R of 1.
SplitIntoBothShapesWitness ==
    /\ Called("TupleSplitInto::split_tuple_into")
    /\ Len(call.tuple) = 3
    /\ Len(call.L) = 2 /\ Len(call.R) = 1
    /\ call.res.outcome = "ok"

\* C6. For a tuple T of arity n in [0, N_max], the empty tuple included, the
\* implementations for k = 0 and for k = n exist; split_tuple_at::<0>(T) returns
\* an empty left part and T as the right part, and split_tuple_at::<n>(T)
\* returns T as the left part and an empty right part.
BoundarySplits ==
    /\ pc = "built" =>
          \A n \in 0..NMax :
            /\ \E i \in DOMAIN impls :
                  /\ impls[i].trait = "TupleSplitAt"
                  /\ Len(impls[i].self) = n /\ impls[i].param = 0
            /\ \E i \in DOMAIN impls :
                  /\ impls[i].trait = "TupleSplitAt"
                  /\ Len(impls[i].self) = n /\ impls[i].param = n
    /\ (SplitAtInRange /\ call.k = 0) =>
          /\ call.res.outcome = "ok"
          /\ call.res.left = <<>>
          /\ call.res.right = call.tuple
    /\ (SplitAtInRange /\ call.k = Len(call.tuple)) =>
          /\ call.res.outcome = "ok"
          /\ call.res.left = call.tuple
          /\ call.res.right = <<>>

\* The empty tuple was split at 0 = n.
BoundarySplitsWitness ==
    /\ SplitAtInRange
    /\ call.tuple = <<>>
    /\ call.k = 0
    /\ call.res.outcome = "ok"

\* The emitted implementations of a trait for arity n and a left part of k
\* identifiers.
Emitted(trait, n, k) ==
    {i \in DOMAIN impls :
        /\ impls[i].trait = trait
        /\ Len(impls[i].self) = n
        /\ Len(impls[i].Left) = k}

ImplTraits == {"TupleSplitAt", "TupleSplitIntoLeft", "TupleSplitIntoRight"}

\* C7. The expansion of impl_split_all! on N_max identifiers emits an
\* implementation (of each of the three traits) for every pair (n, k) with
\* 0 <= k <= n <= N_max, each exactly once, and none for any other pair:
\* (N_max + 1)(N_max + 2) / 2 pairs in all. No pair is ever emitted twice.
GeneratorCoverage ==
    /\ pc # "called" => \A tr \in ImplTraits : \A n \in 0..(NMax + 1) : \A k \in 0..(NMax + 1) :
          Cardinality(Emitted(tr, n, k)) <= 1
    /\ pc = "built" =>
          /\ \A tr \in ImplTraits : \A n \in 0..(NMax + 1) : \A k \in 0..(NMax + 1) :
                Cardinality(Emitted(tr, n, k)) = IF BlockEmits(NMax, n, k) THEN 1 ELSE 0
          /\ \A i \in DOMAIN impls :
                /\ Len(impls[i].self) <= NMax
                /\ Len(impls[i].Left) <= Len(impls[i].self)
                /\ impls[i].trait = "TupleSplitAt" => impls[i].param = Len(impls[i].Left)
          /\ 2 * Cardinality({i \in DOMAIN impls : impls[i].trait = "TupleSplitAt"})
                = (NMax + 1) * (NMax + 2)
          /\ Len(impls) = 3 * Cardinality({i \in DOMAIN impls : impls[i].trait = "TupleSplitAt"})

\* The expansion for three identifiers is complete: ten pairs.
GeneratorCoverageWitness ==
    /\ pc = "built"
    /\ NMax = 3
    /\ Cardinality({i \in DOMAIN impls : impls[i].trait = "TupleSplitAt"}) = 10

\* C8. A call of a split function either has an implementation, and then
\* returns a pair that is its tuple split in two (left then right, nothing
\* missing), or has none, and then fails to build with no result at all; for
\* split_tuple_at::<k>(T) the second case is exactly k > arity or arity > N_max.
\* No call ends any other way.
NoRuntimeFailure ==
    pc = "called" =>
        /\ call.res.outcome \in {"ok", "unimplemented"}
        /\ call.res.outcome = "ok" =>
              /\ call.res.nimpls = 1
              /\ concat_tuples(call.res.left, call.res.right) = call.tuple
              /\ TypeOf(call.res.left) = call.res.Left
              /\ TypeOf(call.res.right) = call.res.Right
        /\ call.res.outcome = "unimplemented" =>
              /\ call.res.nimpls = 0
              /\ call.res.left = <<>> /\ call.res.right = <<>>
        /\ call.fn = "split_tuple_at" =>
              (call.res.outcome = "unimplemented" <=>
                  (call.k > Len(call.tuple) \/ Len(call.tuple) > NMax))

\* A tuple longer than the largest generated arity was split at an index inside it:
\* no implementation.
NoRuntimeFailureWitness ==
    /\ Called("split_tuple_at")
    /\ NMax = 3
    /\ Len(call.tuple) = 4
    /\ call.k = 2
    /\ call.res.outcome = "unimplemented"

(* Properties of the configuration (SpecCfg) *)

EnabledSizes == features \cap SizeFeatureSet

\* The enabled size features are the first ones of the list, without a gap.
IsRunFrom8(sz) ==
    \E j \in 0..Len(SizeFeatures) : sz = {SizeFeatures[i] : i \in 1..j}

\* C9 as stated: with two or more size features enabled, the build is rejected.
SeveralSizesRejected ==
    (pc = "cfg_done" /\ Cardinality(EnabledSizes) >= 2) => ~Accepted(active)

\* C9, amended. With two or more size features enabled the build is rejected
\* (two or more invocations are compiled and their implementations conflict)
\* exactly when dont_hurt_yourself_by_using_all_features is disabled and the
\* enabled size features are not 8, 16, ..., m without a gap; otherwise exactly
\* one invocation is compiled and its implementations are accepted.
SeveralSizesAccepted ==
    (pc = "cfg_done" /\ Cardinality(EnabledSizes) >= 2) =>
        /\ Accepted(active) <=>
              (dont_hurt_yourself \in features \/ IsRunFrom8(EnabledSizes))
        /\ Accepted(active) <=> Cardinality(active) = 1
        /\ ~Accepted(active) => Cardinality(active) >= 2

\* The features 8 and 16 are enabled together and the build is accepted.
SeveralSizesAcceptedWitness ==
    /\ pc = "cfg_done"
    /\ features = {"8", "16"}
    /\ active = {16}
    /\ Accepted(active)

\* C10. With dont_hurt_yourself_by_using_all_features enabled, whatever size
\* features are enabled, no implementation for a tuple of arity above 8 is
\* emitted; with all features enabled the largest supported arity is exactly 8.
SafetyOption ==
    (pc = "cfg_done" /\ dont_hurt_yourself \in features) =>
        /\ \A m \in active : \A n \in 9..m : \A k \in 0..n : ~BlockEmits(m, n, k)
        /\ \A m \in active : m <= 8
        /\ features = Features =>
              /\ active = {8}
              /\ \A k \in 0..8 : BlockEmits(8, 8, k)

\* All eleven features are enabled and only the invocation of 8 identifiers is compiled.
SafetyOptionWitness ==
    /\ pc = "cfg_done"
    /\ features = Features
    /\ active = {8}

\* The largest arity an implementation is emitted for by the compiled invocations.
IsLargestArity(act, n) ==
    /\ \E m \in act : \A k \in 0..n : BlockEmits(m, n, k)
    /\ \A m \in act : \A k \in 0..(n + 1) : ~BlockEmits(m, n + 1, k)

\* The positions in SizeFeatures of the enabled size features.
EnabledPositions == {i \in DOMAIN SizeFeatures : SizeFeatures[i] \in features}

\* C11. With dont_hurt_yourself_by_using_all_features disabled, the largest
\* arity implementations are emitted for is the largest enabled size feature m
\* (the invocation of m identifiers is compiled and none of more identifiers
\* is), and it is 4 when no size feature is enabled.
LargestEnabledSize ==
    (pc = "cfg_done" /\ dont_hurt_yourself \notin features) =>
        IF EnabledPositions = {}
        THEN active = {4} /\ IsLargestArity(active, 4)
        ELSE LET top == CHOOSE i \in EnabledPositions :
                            \A j \in EnabledPositions : j <= i
                 m == SizeFeatureArity[top]
             IN  /\ m \in active
                 /\ \A b \in active : b <= m
                 /\ IsLargestArity(active, m)

\* The features 8, 16 and 32 are enabled: implementations up to arity 32.
LargestEnabledSizeWitness ==
    /\ pc = "cfg_done"
    /\ features = {"8", "16", "32"}
    /\ 32 \in active
    /\ IsLargestArity(active, 32)

\* C12. Under every combination of the eleven features exactly one of the
\* eleven invocations is compiled: never none, never two or more.
ExactlyOneBlock ==
    pc = "cfg_done" => Cardinality(active) = 1

(* Properties of the expansion steps (Spec) *)

Range(seq) == {seq[i] : i \in DOMAIN seq}

NoRepeat(seq) == \A i, j \in DOMAIN seq : seq[i] = seq[j] => i = j

\* seq without the identifier id, the others in their order.
Without(seq, id) ==
    LET Keep(x) == x # id
    IN  SelectSeq(seq, Keep)

\* The last n identifiers of the invocation.
LastIdents(n) == SubSeq(invocation, NMax - n + 1, NMax)

\* An invocation that holds a partition (left list, right list).
HoldsPartition(inv) ==
    \/ inv.macro = "impl_split_single"
    \/ inv.macro = "impl_split_combinations" /\ Len(inv.args) = 2

\* The invocation of impl_split_all! still to expand, if there is one, is the
\* last of pending and is for the n - 1 last identifiers; there is none when n = 0.
RestIs(n) ==
    /\ \A j \in 1..(Len(pending) - 1) : pending[j].macro # "impl_split_all"
    /\ IF n = 0
       THEN pending[Len(pending)].macro # "impl_split_all"
       ELSE pending[Len(pending)] = Inv("impl_split_all", <<LastIdents(n - 1)>>)

\* Every partition in pending: the two lists share no identifier, repeat none,
\* and are together the n identifiers of the arity being expanded.
PartitionsSound ==
    \A j \in DOMAIN pending :
        HoldsPartition(pending[j]) =>
            LET both == pending[j].args[1] \o pending[j].args[2]
            IN  /\ NoRepeat(both)
                /\ Range(pending[j].args[1]) \cap Range(pending[j].args[2]) = {}
                /\ Range(both) = Range(LastIdents(Len(both)))
                /\ RestIs(Len(both))

\* The expansion steps an invocation still takes before nothing is left of it.
StepsLeft(inv) ==
    IF inv.macro = "impl_split_single" THEN 1
    ELSE IF inv.macro = "impl_split_combinations"
    THEN IF Len(inv.args) = 2
         THEN 2 * (Len(inv.args[1]) + 1)
         ELSE 2 * Len(inv.args[1]) + 3
    ELSE (Len(inv.args[1]) + 1) * (Len(inv.args[1]) + 4)

RECURSIVE TotalStepsLeft(_)
TotalStepsLeft(p) ==
    IF p = <<>> THEN 0 ELSE StepsLeft(Head(p)) + TotalStepsLeft(Tail(p))

\* The pairs (arity, length of the left list) from (n, k) on, in the order
\* (n, k), .., (n, 0), (n - 1, n - 1), .., (0, 0).
RECURSIVE PairsFrom(_, _)
PairsFrom(n, k) ==
    <<(<<n, k>>)>> \o (IF k > 0 THEN PairsFrom(n, k - 1)
                       ELSE IF n > 0 THEN PairsFrom(n - 1, n - 1)
                       ELSE <<>>)

\* The pairs (arity, length of the left list) of the emitted partitions, in
\* the order of emission (each partition emits three implementations).
EmittedPairs ==
    [j \in 1..(Len(impls) \div 3) |->
        <<Len(impls[3 * j].self), Len(impls[3 * j].Left)>>]

ExpansionSound ==
    /\ pc = "expand" => PartitionsSound
    /\ pc = "expand" => (TotalStepsLeft(pending) = 0 <=> pending = <<>>)
    /\ pc = "built" => EmittedPairs = PairsFrom(NMax, NMax)

\* A step of impl_split_combinations! from the partition (left, right).
CombinationsStep ==
    LET cur == Head(pending)
        left == cur.args[1]
        right == cur.args[2]
    IN  IF left = <<>>
        THEN \* the last partition of the arity: emitted, and nothing more
             /\ pending' = <<Inv("impl_split_single", <<left, right>>)>> \o Tail(pending)
        ELSE LET nxt == pending'[2]
             IN  /\ Len(pending') = Len(pending) + 1
                 /\ pending'[1] = Inv("impl_split_single", <<left, right>>)
                 /\ nxt.macro = "impl_split_combinations" /\ Len(nxt.args) = 2
                 /\ Len(nxt.args[1]) = Len(left) - 1
                 /\ Len(nxt.args[2]) = Len(right) + 1
                 /\ \E id \in Range(left) :
                       /\ id \notin Range(right)
                       /\ nxt.args[1] = Without(left, id)
                       /\ Without(nxt.args[2], id) = right
                       /\ Range(nxt.args[2]) = Range(right) \cup {id}

\* A step of impl_split_all! from the list types.
AllStep ==
    LET types == Head(pending).args[1]
    IN  /\ pending'[1].macro = "impl_split_combinations"
        /\ pending'[1].args = <<types>>
        /\ IF types = <<>>
           THEN Len(pending') = Len(pending)
           ELSE LET nxt == pending'[2]
                IN  /\ Len(pending') = Len(pending) + 1
                    /\ nxt.macro = "impl_split_all"
                    /\ Len(nxt.args[1]) = Len(types) - 1
                    /\ \E id \in Range(types) : nxt.args[1] = Without(types, id)

ExpansionStep ==
    (pc = "expand" /\ pending # <<>> /\ pending' # pending) =>
        /\ TotalStepsLeft(pending') = TotalStepsLeft(pending) - 1
        /\ (Head(pending).macro = "impl_split_combinations"
                /\ Len(Head(pending).args) = 2) => CombinationsStep
        /\ (Head(pending).macro = "impl_split_combinations"
                /\ Len(Head(pending).args) = 1) =>
              pending' = <<Inv("impl_split_combinations",
                               <<Head(pending).args[1], (<<>>)>>)>> \o Tail(pending)
        /\ Head(pending).macro = "impl_split_all" => AllStep

\* C13. The expansion for an arity starts from the partition (all n
\* identifiers, none); every step of impl_split_combinations! emits the current
\* partition and derives the next by moving exactly one identifier from the
\* left list to the right list, the others staying on their side in their
\* order; the two lists never share or repeat an identifier and together are
\* the n identifiers; the left list gets one shorter per step, so n + 1
\* partitions are emitted, the last with an empty left list; every step of
\* impl_split_all! removes exactly one identifier, so the arities are visited
\* N_max, N_max - 1, .., 0; every step leaves one step less to do, so the
\* expansion ends.
GeneratorStep == []ExpansionSound /\ [][ExpansionStep]_vars

\* Of three identifiers two have been moved to the right list.
GeneratorStepWitness ==
    /\ pc = "expand"
    /\ NMax = 3
    /\ pending # <<>>
    /\ Head(pending).macro = "impl_split_combinations"
    /\ Len(Head(pending).args) = 2
    /\ Len(Head(pending).args[1]) = 1
    /\ Len(Head(pending).args[2]) = 2

====
